---- MODULE Spec2Model ----
(***************************************************************************)
(* sha1files (src/main.go): walk the directory trees named on the command  *)
(* line, hash every regular file, and insert (extless, ext, sha1, path)    *)
(* rows into the sqlite table "files" in batches.                          *)
(*                                                                         *)
(* File names are sequences of one-character strings, paths are sequences  *)
(* of names (the path <<>> is the empty string ""), so that filepath.Ext,  *)
(* strings.Replace, strings.HasPrefix and the lexical order in which       *)
(* filepath.Walk reads a directory are computed and not assumed.           *)
(***************************************************************************)
EXTENDS Integers, Sequences, FiniteSets, TLC

(***************************************************************************)
(* Bounds of the model.                                                    *)
(***************************************************************************)
\* Stand-in for the batch capacity 100000 of main.go:126.
BatchSize == 2
\* Longest list of root directories on the command line.
MaxRoots == 2
\* Most inserts / commits that the store lets fail in one run.
MaxStoreFaults == 1
\* Most runs of the program, one after the other, on the same store.
MaxRuns == 2

(***************************************************************************)
(* Strings.                                                                *)
(***************************************************************************)
\* Byte values of the characters used in file names (ASCII).
CharCode == [c \in {"-", ".", "a", "b", "c", "d", "e", "f", "h", "k", "q", "r", "s", "t", "x"} |->
               CASE c = "-" -> 45 [] c = "." -> 46 [] c = "a" -> 97 [] c = "b" -> 98
                 [] c = "c" -> 99 [] c = "d" -> 100 [] c = "e" -> 101 [] c = "f" -> 102
                 [] c = "h" -> 104 [] c = "k" -> 107 [] c = "q" -> 113 [] c = "r" -> 114
                 [] c = "s" -> 115 [] c = "t" -> 116 [] c = "x" -> 120]

\* Go's < on strings: bytewise lexical order.
RECURSIVE StrLess(_, _)
StrLess(a, b) ==
    IF b = <<>> THEN FALSE
    ELSE IF a = <<>> THEN TRUE
    ELSE IF CharCode[Head(a)] # CharCode[Head(b)] THEN CharCode[Head(a)] < CharCode[Head(b)]
    ELSE StrLess(Tail(a), Tail(b))

\* strings.HasPrefix(s, prefix)
HasPrefix(s, prefix) ==
    /\ Len(s) >= Len(prefix)
    /\ SubSeq(s, 1, Len(prefix)) = prefix

\* filepath.Ext(name): the suffix beginning at the final dot of the name, "" if
\* there is no dot.
Ext(name) ==
    LET dots == {k \in 1..Len(name) : name[k] = "."}
    IN  IF dots = {} THEN <<>>
        ELSE LET last == CHOOSE k \in dots : \A j \in dots : j <= k
             IN  SubSeq(name, last, Len(name))

\* strings.Replace(s, old, "", -1): every non-overlapping occurrence of old,
\* found left to right, is removed (an empty old leaves s as it is).
RECURSIVE RemoveAll(_, _)
RemoveAll(s, old) ==
    IF old = <<>> \/ Len(s) < Len(old) THEN s
    ELSE IF SubSeq(s, 1, Len(old)) = old
         THEN RemoveAll(SubSeq(s, Len(old) + 1, Len(s)), old)
         ELSE <<Head(s)>> \o RemoveAll(Tail(s), old)

\* extless := strings.Replace(info.Name(), ext, "", -1)
Extless(name) == RemoveAll(name, Ext(name))

(***************************************************************************)
(* The file system under scan.                                             *)
(***************************************************************************)
NameR    == <<"r">>
NameQ    == <<"q">>
NameS    == <<".", "s">>
NameDash == <<"-", "a">>
NameH    == <<".", "h">>
NameK    == <<"k">>
NameATT  == <<"a", ".", "t", ".", "t">>
NameD    == <<"d">>
NameBT   == <<"b", ".", "t">>
NameC    == <<"c">>
NameET   == <<"e", ".", "t">>
NameF    == <<"f">>

NameX    == <<".", "x">>
NameT    == <<"t">>

\* Every path that may exist. The command line names its roots relative to the
\* working directory "/", so a root and its absolute path are the same
\* sequence of names.
Universe ==
    { <<NameR>>, <<NameR, NameDash>>, <<NameR, NameH>>, <<NameR, NameH, NameK>>,
      <<NameR, NameATT>>, <<NameR, NameD>>, <<NameR, NameD, NameX>>,
      <<NameR, NameD, NameBT>>, <<NameR, NameD, NameC>>, <<NameR, NameT>>,
      <<NameQ>>, <<NameQ, NameET>>,
      <<NameS>>, <<NameS, NameF>> }

RootPaths == { <<NameR>>, <<NameQ>>, <<NameS>> }

\* info.Name(): the base name of a path.
BaseName(path) == path[Len(path)]

Parent(path) == SubSeq(path, 1, Len(path) - 1)

\* The file system in which "-a", ".h", "a.t.t", "d/.x", "t" and "q" are of the
\* given kinds; ".h" and "q", when directories, hold one regular file each.
MkFS(dash, h, att, x, t, q) ==
    [p \in Universe |->
        CASE p = <<NameR>>               -> "dir"
          [] p = <<NameR, NameDash>>     -> dash
          [] p = <<NameR, NameH>>        -> h
          [] p = <<NameR, NameH, NameK>> -> IF h = "dir" THEN "file" ELSE "absent"
          [] p = <<NameR, NameATT>>      -> att
          [] p = <<NameR, NameD>>        -> "dir"
          [] p = <<NameR, NameD, NameX>> -> x
          [] p = <<NameR, NameT>>        -> t
          [] p = <<NameQ>>               -> q
          [] p = <<NameQ, NameET>>       -> IF q = "dir" THEN "file" ELSE "absent"
          [] p = <<NameS>>               -> "dir"
          [] OTHER                       -> "file"]

\* The file systems the runs are checked on.
FileSystems ==
    { MkFS(dash, h, att, x, t, q) :
        dash \in {"absent", "file"}, h \in {"absent", "file", "dir"},
        att \in {"file", "unreadable"}, x \in {"absent", "file"},
        t \in {"absent", "file"}, q \in {"absent", "dir"} }

\* Byte content of the regular files.
Content(path) ==
    IF BaseName(path) = NameATT THEN "hello"
    ELSE IF BaseName(path) = NameC THEN ""
    ELSE "x"

\* hasher.Sum(nil) after hasher.Write(content): the 20 bytes of the SHA-1
\* digest of the contents above.
Sha1Sum(content) ==
    CASE content = ""      -> << 218, 57, 163, 238, 94, 107, 75, 13, 50, 85,
                           191, 239, 149, 96, 24, 144, 175, 216, 7, 9 >>
      [] content = "hello" -> << 170, 244, 198, 29, 220, 197, 232, 162, 218, 190,
                           222, 15, 59, 72, 44, 217, 174, 169, 67, 77 >>
      [] content = "x"     -> << 17, 246, 173, 142, 197, 42, 41, 132, 171, 170,
                           253, 124, 59, 81, 101, 3, 120, 92, 32, 114 >>

\* The digits of encoding/hex.
HexTable == "0123456789abcdef"

\* Mutant of HexDigit: the digits above 9 are capital letters.
HexDigitUpper(n) == SubSeq("0123456789ABCDEF", n + 1, n + 1)

\* One digit of hex.EncodeToString.
HexDigit(n) == SubSeq(HexTable, n + 1, n + 1)

\* hex.EncodeToString(bytes): two digits for each byte, high half first.
RECURSIVE HexEncode(_)
HexEncode(bytes) ==
    IF bytes = <<>> THEN ""
    ELSE HexDigit(Head(bytes) \div 16) \o HexDigit(Head(bytes) % 16)
             \o HexEncode(Tail(bytes))

\* hex.EncodeToString(hasher.Sum(nil)) of calcSha1.
Sha1Hex(content) == HexEncode(Sha1Sum(content))

\* Lists of roots on the command line.
ArgLists ==
    UNION { [1..n -> RootPaths] : n \in 0..MaxRoots }


(***************************************************************************)
(* doVisit, and the reaction of filepath.Walk to what the callback returns.*)
(***************************************************************************)
\* Mutant of IsHidden: the dot is looked for at the end of the name.
IsHiddenAtEnd(name) == name[Len(name)] = "."

\* strings.HasPrefix(info.Name(), ".")
IsHidden(name) == HasPrefix(name, <<".">>)

\* calcSha1(path): the hex digest of the whole content, or "" and the error
\* of ioutil.ReadFile.
CalcSha1(path, kind) ==
    IF kind = "unreadable"
    THEN [hash |-> "", err |-> "IOError"]
    ELSE [hash |-> Sha1Hex(Content(path)), err |-> "nil"]

\* doVisit(path, info, err) for an entry that exists (info is not nil): the
\* records it returns (none or one) and its error.
DoVisit(path, kind) ==
    IF IsHidden(BaseName(path))
    THEN [rec |-> <<>>, err |-> "SkipDir"]
    ELSE IF kind = "dir"
    THEN [rec |-> <<>>, err |-> "nil"]
    ELSE LET sha1 == CalcSha1(path, kind)
         IN  IF sha1.err # "nil"
             THEN [rec |-> <<>>, err |-> sha1.err]
             ELSE [rec |-> << [extless |-> Extless(BaseName(path)),
                               ext     |-> Ext(BaseName(path)),
                               sha1    |-> sha1.hash,
                               path    |-> path] >>,
                   err |-> "nil"]

\* A set of paths as the sequence sorted by base name.
RECURSIVE SortByName(_)
SortByName(S) ==
    IF S = {} THEN <<>>
    ELSE LET m == CHOOSE x \in S :
                    \A y \in S : x = y \/ StrLess(BaseName(x), BaseName(y))
         IN  <<m>> \o SortByName(S \ {m})

\* readDirNames(dir) of filepath.Walk: the entries of dir in lexical order.
DirEntries(f, dir) ==
    SortByName({p \in Universe : Len(p) = Len(dir) + 1 /\ Parent(p) = dir /\ f[p] # "absent"})

\* The entries of the sequence from the first one that is not in directory dir.
RECURSIVE DropSiblings(_, _)
DropSiblings(paths, dir) ==
    IF paths # <<>> /\ Parent(Head(paths)) = dir
    THEN DropSiblings(Tail(paths), dir)
    ELSE paths

\* filepath.Walk after the callback returned err for the entry at the head of
\* pending: a directory that got nil is read and descended into; SkipDir for a
\* directory skips its content, SkipDir for anything else skips the rest of the
\* containing directory; any other error ends the walk of the root.
WalkAfter(f, pending, err) ==
    LET path == Head(pending)
        rest == Tail(pending)
    IN  CASE err = "nil"     -> IF f[path] = "dir" THEN DirEntries(f, path) \o rest ELSE rest
          [] err = "SkipDir" -> IF f[path] = "dir" THEN rest ELSE DropSiblings(rest, Parent(path))
          [] OTHER           -> <<>>

\* Mutant of BatchFull: the batch is committed one record late.
BatchFullLate(n) == n = BatchSize + 1

\* filepath.Abs(dir) when os.Getwd succeeds: the working directory "/" joined
\* with dir.
Abs(dir) == <<>> \o dir

\* os.Lstat(path) succeeds.
LstatOk(f, path) == path \in Universe /\ f[path] # "absent"

\* Mutant of AppendRecord: the new record is put in front.
PrependRecord(recs, rec) == rec \o recs

\* records = append(records, result), for the none or one record of doVisit.
AppendRecord(recs, rec) == recs \o rec

\* Mutant of ClearBatch: the batch is kept after the commit.
KeepBatch(recs) == recs

\* records = []*record{} after commitRecords returned nil.
ClearBatch(recs) == <<>>

\* Mutant of NextInsert: the loop is left at the first insert that fails.
NextInsertBreak(i, n, ok) == IF ok THEN i + 1 ELSE n + 1

\* The insert loop of commitRecords after the insert of record i of n: the
\* result of stmt.Exec is dropped, the loop goes on to record i + 1.
NextInsert(i, n, ok) == i + 1

\* INSERT INTO files (extless, ext, sha1, path) VALUES (?, ?, ?, ?) on the
\* rows t.
InsertRow(t, row) == Append(t, row)

\* len(records) == 100000
BatchFull(n) == n = BatchSize

\* The statement of commitRecords is prepared on db (db.Prepare), not on the
\* transaction: database/sql runs it on a pooled connection in autocommit.
StmtOnTx == FALSE

(***************************************************************************)
(* State.                                                                  *)
(***************************************************************************)
VARIABLES
    fs,          \* the file system: path -> "absent" | "dir" | "file" | "unreadable"
    args,        \* flag.Args()
    pc,          \* position of main / commitRecords
    ret,         \* caller of commitRecords: "walk" (visit closure) or "final"
    rootIdx,     \* index into args of the root being processed
    abs,         \* result of filepath.Abs for that root (<<>> is "")
    absErr,      \* filepath.Abs returned an error for that root
    todo,        \* entries filepath.Walk has still to visit, in order
    records,     \* the in-memory batch
    idx,         \* position of the insert loop of commitRecords in records
    table,       \* rows of table files that are durable
    txOpen,      \* a transaction is begun and neither committed nor rolled back
    txPending,   \* rows inserted inside the open transaction
    dbOpens,     \* number of sql.Open that succeeded
    dbCloses,    \* number of db.Close
    exitCode,    \* -1 while running; 0 return from main, 1 log.Fatal, 2 panic
    faults,      \* inserts and commits that have failed
    visited,     \* history: paths handed to the visit closure
    emitted,     \* history: records returned by doVisit
    commits,     \* history: len(records) of every commitRecords call
    inserted,    \* history: rows whose insert was executed successfully
    hashFailed,  \* history: calcSha1 has failed
    commitFailed,\* history: tx.Commit has failed
    attempts,    \* history: every stmt.Exec, its row and whether it succeeded
    logs,        \* history: the errors written to the log
    runs,        \* number of the run of the program on this store
    prevInserted,\* history: rows the run before this one inserted
    table0       \* history: rows of the table when this run started

vars == <<fs, args, pc, ret, rootIdx, abs, absErr, todo, records, idx, table, txOpen,
          txPending, dbOpens, dbCloses, exitCode, faults, visited, emitted, commits,
          inserted, hashFailed, commitFailed, attempts, logs, runs, prevInserted,
          table0>>

walkVars  == <<rootIdx, abs, absErr, todo, visited, emitted, hashFailed>>
storeVars == <<table, txOpen, txPending, idx, faults, inserted, commitFailed, attempts>>
connVars  == <<dbOpens, dbCloses>>
runVars   == <<runs, prevInserted, table0>>

Init ==
    /\ fs \in FileSystems
    /\ args \in ArgLists
    /\ pc = "start"
    /\ ret = "walk"
    /\ rootIdx = 1
    /\ abs = <<>>
    /\ absErr = FALSE
    /\ todo = <<>>
    /\ records = <<>>
    /\ idx = 1
    /\ table = <<>>
    /\ txOpen = FALSE
    /\ txPending = <<>>
    /\ dbOpens = 0
    /\ dbCloses = 0
    /\ exitCode = -1
    /\ faults = 0
    /\ visited = <<>>
    /\ emitted = <<>>
    /\ commits = <<>>
    /\ inserted = <<>>
    /\ hashFailed = FALSE
    /\ commitFailed = FALSE
    /\ attempts = <<>>
    /\ logs = {}
    /\ runs = 1
    /\ prevInserted = <<>>
    /\ table0 = <<>>


(***************************************************************************)
(* main.                                                                   *)
(***************************************************************************)
\* log.Fatal: os.Exit(1), deferred calls do not run.
Fatal ==
    /\ pc' = "exited"
    /\ exitCode' = 1
    /\ logs' = logs \cup {"fatal"}
    /\ UNCHANGED connVars

\* Return from main with db open: the deferred db.Close() runs, exit status 0.
ReturnFromMain ==
    /\ pc' = "exited"
    /\ exitCode' = 0
    /\ dbCloses' = dbCloses + 1
    /\ UNCHANGED dbOpens

\* A run-time panic unwinds main: the deferred db.Close() runs, exit status 2.
Panic ==
    /\ pc' = "exited"
    /\ exitCode' = 2
    /\ dbCloses' = dbCloses + 1
    /\ UNCHANGED dbOpens

\* Mutant of AfterSchemaError: the return is missing.
AfterSchemaErrorGoOn ==
    /\ pc' = "resolve"
    /\ UNCHANGED <<connVars, exitCode>>

\* main after the error of the CREATE TABLE statement was logged: return.
AfterSchemaError == ReturnFromMain

\* Mutant of CreateTableIfNotExists: the table is dropped and made anew.
RecreateTable(t) == <<>>

\* CREATE TABLE IF NOT EXISTS files (...) on a store whose table files holds
\* the rows t: the rows stay.
CreateTableIfNotExists(t) == t

\* flag.Parse(); without arguments print the usage and return.
ParseArgs ==
    /\ pc = "start"
    /\ IF Len(args) = 0
       THEN pc' = "exited" /\ exitCode' = 0
       ELSE pc' = "open" /\ UNCHANGED exitCode
    /\ UNCHANGED <<fs, args, ret, records, commits, logs>>
    /\ UNCHANGED <<walkVars, storeVars, connVars, runVars>>

\* sql.Open("sqlite3", "./files.db"); defer db.Close()
OpenDB ==
    /\ pc = "open"
    /\ \/ /\ pc' = "schema"
          /\ dbOpens' = dbOpens + 1
          /\ UNCHANGED <<dbCloses, exitCode, logs>>
       \/ Fatal
    /\ UNCHANGED <<fs, args, ret, records, commits>>
    /\ UNCHANGED <<walkVars, storeVars, runVars>>

\* CREATE TABLE IF NOT EXISTS files (...); on an error log it and return.
CreateSchema ==
    /\ pc = "schema"
    /\ \/ /\ pc' = "resolve"
          /\ UNCHANGED <<connVars, exitCode, logs>>
       \/ /\ logs' = logs \cup {"schema"}
          /\ AfterSchemaError
    /\ table' = CreateTableIfNotExists(table)
    /\ UNCHANGED <<fs, args, ret, records, commits>>
    /\ UNCHANGED <<txOpen, txPending, idx, faults, inserted, commitFailed, attempts>>
    /\ UNCHANGED <<walkVars, runVars>>

\* abs, err := filepath.Abs(dir); an error is logged and nothing else.
ResolveRoot ==
    /\ pc = "resolve"
    /\ rootIdx <= Len(args)
    /\ \/ abs' = Abs(args[rootIdx]) /\ absErr' = FALSE /\ UNCHANGED logs
       \/ abs' = <<>> /\ absErr' = TRUE /\ logs' = logs \cup {"abs"}
    /\ pc' = "lstat"
    /\ UNCHANGED <<fs, args, ret, records, commits, exitCode, rootIdx, todo, visited,
                   emitted, hashFailed>>
    /\ UNCHANGED <<storeVars, connVars, runVars>>

\* filepath.Walk(abs, visit): os.Lstat(abs). When it fails the callback gets
\* a nil info, and doVisit calls info.Name() on it.
WalkRoot ==
    /\ pc = "lstat"
    /\ IF ~LstatOk(fs, abs)
       THEN Panic /\ UNCHANGED todo
       ELSE /\ pc' = "walk"
            /\ todo' = <<abs>>
            /\ UNCHANGED <<connVars, exitCode>>
    /\ UNCHANGED <<fs, args, ret, records, commits, rootIdx, abs, absErr, visited,
                   emitted, hashFailed, logs>>
    /\ UNCHANGED <<storeVars, runVars>>

\* The visit closure on the next entry of the walk: doVisit, append, and the
\* call of commitRecords when the batch is full.
Visit ==
    /\ pc = "walk"
    /\ todo # <<>>
    /\ LET path == Head(todo)
           r    == DoVisit(path, fs[path])
       IN  /\ visited' = Append(visited, path)
           /\ emitted' = emitted \o r.rec
           /\ records' = AppendRecord(records, r.rec)
           /\ hashFailed' = (hashFailed \/ r.err = "IOError")
           /\ todo' = WalkAfter(fs, todo, r.err)
           /\ IF r.err = "nil" /\ BatchFull(Len(records'))
              THEN /\ pc' = "begin"
                   /\ ret' = "walk"
                   /\ commits' = Append(commits, Len(records'))
              ELSE UNCHANGED <<pc, ret, commits>>
    /\ UNCHANGED <<fs, args, exitCode, rootIdx, abs, absErr, logs>>
    /\ UNCHANGED <<storeVars, connVars, runVars>>

\* filepath.Walk returns; its result is dropped and the loop takes the next root.
WalkDone ==
    /\ pc = "walk"
    /\ todo = <<>>
    /\ rootIdx' = rootIdx + 1
    /\ pc' = "resolve"
    /\ UNCHANGED <<fs, args, ret, records, commits, exitCode, abs, absErr, todo, visited,
                   emitted, hashFailed, logs>>
    /\ UNCHANGED <<storeVars, connVars, runVars>>

\* After the last root: commit any remaining records.
FinalFlush ==
    /\ pc = "resolve"
    /\ rootIdx > Len(args)
    /\ IF Len(records) > 0
       THEN /\ pc' = "begin"
            /\ ret' = "final"
            /\ commits' = Append(commits, Len(records))
       ELSE /\ pc' = "return"
            /\ UNCHANGED <<ret, commits>>
    /\ UNCHANGED <<fs, args, records, exitCode, logs>>
    /\ UNCHANGED <<walkVars, storeVars, connVars, runVars>>

\* main returns.
MainReturn ==
    /\ pc = "return"
    /\ ReturnFromMain
    /\ UNCHANGED <<fs, args, ret, records, commits, logs>>
    /\ UNCHANGED <<walkVars, storeVars, runVars>>

(***************************************************************************)
(* commitRecords.                                                          *)
(***************************************************************************)
\* tx, err := db.Begin(); an error is returned, and the caller calls log.Fatal.
Begin ==
    /\ pc = "begin"
    /\ \/ /\ txOpen' = TRUE
          /\ pc' = "prepare"
          /\ UNCHANGED <<connVars, exitCode, logs>>
       \/ Fatal /\ UNCHANGED txOpen
    /\ UNCHANGED <<fs, args, ret, records, commits>>
    /\ UNCHANGED <<table, txPending, idx, faults, inserted, commitFailed, attempts>>
    /\ UNCHANGED <<walkVars, runVars>>

\* stmt, err := db.Prepare("INSERT ..."); an error is returned as it is.
Prepare ==
    /\ pc = "prepare"
    /\ \/ /\ idx' = 1
          /\ pc' = IF Len(records) = 0 THEN "commit" ELSE "exec"
          /\ UNCHANGED <<connVars, exitCode, logs>>
       \/ Fatal /\ UNCHANGED idx
    /\ UNCHANGED <<fs, args, ret, records, commits>>
    /\ UNCHANGED <<table, txOpen, txPending, faults, inserted, commitFailed, attempts>>
    /\ UNCHANGED <<walkVars, runVars>>

\* One turn of the loop: stmt.Exec(...) of records[idx], its result dropped.
ExecInsert ==
    /\ pc = "exec"
    /\ LET row == records[idx]
       IN  \/ /\ IF StmtOnTx /\ txOpen
                 THEN txPending' = InsertRow(txPending, row) /\ UNCHANGED table
                 ELSE table' = InsertRow(table, row) /\ UNCHANGED txPending
              /\ inserted' = Append(inserted, row)
              /\ attempts' = Append(attempts, [row |-> row, ok |-> TRUE])
              /\ idx' = NextInsert(idx, Len(records), TRUE)
              /\ UNCHANGED faults
           \/ /\ faults < MaxStoreFaults
              /\ faults' = faults + 1
              /\ attempts' = Append(attempts, [row |-> row, ok |-> FALSE])
              /\ idx' = NextInsert(idx, Len(records), FALSE)
              /\ UNCHANGED <<table, txPending, inserted>>
    /\ pc' = IF idx' > Len(records) THEN "commit" ELSE "exec"
    /\ UNCHANGED <<fs, args, ret, records, commits, exitCode, txOpen, commitFailed, logs>>
    /\ UNCHANGED <<walkVars, connVars, runVars>>

\* tx.Commit(), its result dropped; return nil. The visit closure then empties
\* the batch; after the final flush main only returns.
Commit ==
    /\ pc = "commit"
    /\ \/ /\ table' = table \o txPending
          /\ UNCHANGED <<faults, commitFailed>>
       \/ /\ faults < MaxStoreFaults
          /\ faults' = faults + 1
          /\ commitFailed' = TRUE
          /\ UNCHANGED table
    /\ txOpen' = FALSE
    /\ txPending' = <<>>
    /\ records' = IF ret = "walk" THEN ClearBatch(records) ELSE records
    /\ pc' = IF ret = "walk" THEN "walk" ELSE "return"
    /\ UNCHANGED <<fs, args, ret, commits, exitCode, idx, inserted, attempts, logs>>
    /\ UNCHANGED <<walkVars, connVars, runVars>>

Next ==
    \/ ParseArgs
    \/ OpenDB
    \/ CreateSchema
    \/ ResolveRoot
    \/ WalkRoot
    \/ Visit
    \/ WalkDone
    \/ FinalFlush
    \/ MainReturn
    \/ Begin
    \/ Prepare
    \/ ExecInsert
    \/ Commit

Spec == Init /\ [][Next]_vars

\* The process is killed from outside (SIGKILL) between two steps: no deferred
\* call runs, the exit status is 128 + 9.
Kill ==
    /\ pc # "exited"
    /\ pc' = "exited"
    /\ exitCode' = 137
    /\ UNCHANGED <<fs, args, ret, records, commits, logs>>
    /\ UNCHANGED <<walkVars, storeVars, connVars, runVars>>

NextOrKill == Next \/ Kill

\* The program is started again, with the same arguments on the same file
\* system and the same store, after a complete run in which the store did not
\* fail.
Rerun ==
    /\ pc = "exited"
    /\ exitCode = 0
    /\ Len(args) > 0
    /\ rootIdx > Len(args)
    /\ faults = 0
    /\ runs < MaxRuns
    /\ runs' = runs + 1
    /\ prevInserted' = inserted
    /\ table0' = table
    /\ pc' = "start"
    /\ ret' = "walk"
    /\ rootIdx' = 1
    /\ abs' = <<>>
    /\ absErr' = FALSE
    /\ todo' = <<>>
    /\ records' = <<>>
    /\ idx' = 1
    /\ dbOpens' = 0
    /\ dbCloses' = 0
    /\ exitCode' = -1
    /\ visited' = <<>>
    /\ emitted' = <<>>
    /\ commits' = <<>>
    /\ inserted' = <<>>
    /\ attempts' = <<>>
    /\ hashFailed' = FALSE
    /\ commitFailed' = FALSE
    /\ logs' = {}
    /\ UNCHANGED <<fs, args, table, txOpen, txPending, faults>>

NextOrRerun == Next \/ Rerun

\* Runs of the program one after the other on the same store.
SpecRerun == Init /\ [][NextOrRerun]_vars

\* The runs of the program that may be killed at any point.
SpecKill == Init /\ [][NextOrKill]_vars

TypeOK ==
    /\ pc \in {"start", "open", "schema", "resolve", "lstat", "walk", "return", "begin",
               "prepare", "exec", "commit", "exited"}
    /\ Len(records) <= BatchSize
    /\ exitCode \in {-1, 0, 1, 2, 137}


(***************************************************************************)
(* Properties.                                                             *)
(***************************************************************************)
\* The name begins with '.', read off the name itself.
StartsWithDot(name) == Len(name) > 0 /\ name[1] = "."

IsRegular(path) == fs[path] \in {"file", "unreadable"}

\* All roots were walked, the final flush ran and main returned.
RunCompleted == pc = "exited" /\ exitCode = 0 /\ Len(args) > 0 /\ rootIdx > Len(args)

\* Regular files at or below root none of whose names from the root down
\* begins with '.'.
QualifyingUnder(root) ==
    {p \in Universe :
        /\ HasPrefix(p, root)
        /\ IsRegular(p)
        /\ \A k \in 1..Len(p) : ~StartsWithDot(p[k])
        /\ \A k \in Len(root)..(Len(p) - 1) : fs[SubSeq(p, 1, k)] = "dir"}

\* Their number over the first n roots of the command line, a root given
\* twice counting twice.
RECURSIVE QualifyingInRoots(_)
QualifyingInRoots(n) ==
    IF n = 0 THEN 0
    ELSE QualifyingInRoots(n - 1) + Cardinality(QualifyingUnder(args[n]))

\* C1: when the run completes (no file having failed to hash), the number of
\* records emitted equals the number of regular files reachable from the roots
\* whose own name and whose ancestors' names from the root down do not begin
\* with '.'.
C1_RecordsEqualQualifyingFiles ==
    (RunCompleted /\ ~hashFailed) =>
        Len(emitted) = QualifyingInRoots(Len(args))

\* C2: no record is emitted for an entry whose name, or the name of one of its
\* ancestors from the root down, begins with '.', and no entry beneath an entry
\* whose name begins with '.' is visited.
C2_HiddenNeverRecordedNorDescended ==
    /\ \A i \in 1..Len(visited) :
          \A k \in 1..(Len(visited[i]) - 1) : ~StartsWithDot(visited[i][k])
    /\ \A i \in 1..Len(emitted) :
          \A k \in 1..Len(emitted[i].path) : ~StartsWithDot(emitted[i].path[k])
    /\ \A i \in 1..Len(table) :
          \A k \in 1..Len(table[i].path) : ~StartsWithDot(table[i].path[k])

\* C2 witness: a completed run that visited a hidden directory which has an
\* entry in it, and emitted records elsewhere.
C2_Witness ==
    /\ RunCompleted
    /\ emitted # <<>>
    /\ \E i \in 1..Len(visited) :
          /\ StartsWithDot(BaseName(visited[i]))
          /\ fs[visited[i]] = "dir"
          /\ \E p \in Universe : Parent(p) = visited[i] /\ fs[p] = "file"

\* C3: a hidden regular file only goes without a record: on a completed run
\* without hash failure, every non-hidden regular file of the same directory
\* that sorts after a visited hidden file is visited after it and recorded.
C3_HiddenFileSkipsOnlyItself ==
    (RunCompleted /\ ~hashFailed) =>
        \A i \in 1..Len(visited) :
            (StartsWithDot(BaseName(visited[i])) /\ IsRegular(visited[i])) =>
                \A q \in Universe :
                    ( /\ Len(q) = Len(visited[i])
                      /\ Parent(q) = Parent(visited[i])
                      /\ fs[q] = "file"
                      /\ ~StartsWithDot(BaseName(q))
                      /\ StrLess(BaseName(visited[i]), BaseName(q)) ) =>
                        /\ \E j \in (i + 1)..Len(visited) : visited[j] = q
                        /\ \E e \in 1..Len(emitted) : emitted[e].path = q

\* Number of visited entries that are non-hidden, readable regular files.
QualifyingVisited ==
    Cardinality({i \in 1..Len(visited) :
                    fs[visited[i]] = "file" /\ ~StartsWithDot(BaseName(visited[i]))})

\* C4: a completed run over N qualifying files has called commitRecords
\* ceil(N/B) times, the first floor(N/B) times with B records and a last time
\* with the N mod B remaining ones if there are any, never with none; with no
\* failing insert the rows inserted are N.
C4_CommitCountAndSizes ==
    RunCompleted =>
        LET N == QualifyingVisited
            B == BatchSize
        IN  /\ Len(commits) = (N + B - 1) \div B
            /\ \A k \in 1..Len(commits) :
                  /\ commits[k] > 0
                  /\ commits[k] = IF k <= N \div B THEN B ELSE N % B
            /\ faults = 0 => (Len(inserted) = N /\ Len(table) = N)

\* C4 witness: a completed run without store failure that committed a full
\* batch and then a smaller remainder.
C4_Witness ==
    /\ RunCompleted
    /\ faults = 0
    /\ Len(commits) >= 2
    /\ commits[1] = BatchSize
    /\ commits[Len(commits)] < BatchSize

\* C5: once hashing a file has failed no further entry is visited, in the
\* current root or in a later one, and the process ends with a failure status.
C5_HashFailureAbortsRun ==
    [][hashFailed => (visited' = visited /\ (pc' = "exited" => exitCode' # 0))]_vars

\* C6: a failed commit is fatal: the process has then ended with the error and
\* the batch was not cleared.
C6_CommitFailureIsFatal ==
    commitFailed => (pc = "exited" /\ exitCode = 1 /\ records # <<>>)

\* C7: every insert of a batch is executed inside the transaction the flush
\* began, and rows become durable only at its commit.
C7_InsertsInsideTransaction ==
    [][ /\ inserted' # inserted =>
              (txOpen /\ txPending' = Append(txPending, records[idx]) /\ table' = table)
        /\ table' # table => pc = "commit" ]_vars

\* C8: after filepath.Abs failed for a root no traversal is started for it and
\* the driver goes on to the next root.
C8_AbsFailureSkipsRoot ==
    [][(pc = "lstat" /\ absErr) =>
          (pc' = "resolve" /\ rootIdx' = rootIdx + 1 /\ visited' = visited
           /\ exitCode' = exitCode)]_vars

\* C9: the store is opened at most once, and whenever the process has ended
\* after opening it the connection was closed exactly once.
C9_ConnectionClosedOnEveryExit ==
    /\ dbOpens <= 1
    /\ (pc = "exited" /\ dbOpens = 1) => dbCloses = 1

\* C10: in every record ext is the suffix of the base name from its last '.'
\* (empty without a '.'), and extless followed by ext is the base name.
C10_ExtlessExtSplitName ==
    \A i \in 1..Len(emitted) :
        LET r    == emitted[i]
            name == BaseName(r.path)
        IN  /\ r.extless \o r.ext = name
            /\ IF \E k \in 1..Len(name) : name[k] = "."
               THEN /\ r.ext # <<>>
                    /\ r.ext[1] = "."
                    /\ \A k \in 2..Len(r.ext) : r.ext[k] # "."
                    /\ r.ext = SubSeq(name, Len(name) - Len(r.ext) + 1, Len(name))
               ELSE r.ext = <<>>


\* Records emitted by the Visitor that are not rows of the store.
Uncommitted == Len(emitted) - (Len(table) - Len(table0))

\* Inserts that failed.
FailedInserts == Len(SelectSeq(attempts, LAMBDA a : ~a.ok))

\* The process has ended before the run was complete.
EndedEarly == pc = "exited" /\ ~RunCompleted

\* C11 as stated: when the process ends early the records emitted and not
\* committed are at most the batch capacity minus one.
C11_LossBelowCapacity ==
    EndedEarly => Uncommitted <= BatchSize - 1

\* C11 amended: when the process ends early (a fatal error, a panic or a kill
\* between steps) the records emitted and not committed are at most the batch
\* capacity plus the number of inserts that failed.
C11_LossAtMostCapacity ==
    EndedEarly => Uncommitted <= BatchSize + FailedInserts

\* C11 witness: the process ended early with a whole batch in memory and no
\* row of it stored, by log.Fatal or by a kill.
C11_Witness ==
    /\ EndedEarly
    /\ exitCode \in {1, 137}
    /\ Len(records) = BatchSize
    /\ Uncommitted = BatchSize


\* The sequence a is the beginning of the sequence b.
IsPrefix(a, b) == Len(a) <= Len(b) /\ SubSeq(b, 1, Len(a)) = a

\* A later run that completed without store failure has inserted the rows the
\* run before it inserted, after the rows that were there.
LaterRunDuplicates ==
    (runs >= 2 /\ RunCompleted /\ faults = 0) =>
        /\ inserted = prevInserted
        /\ table = table0 \o prevInserted

\* C12: the store is append-only: every step keeps the rows of the table as
\* the beginning of its new content, schema creation changes no row, also on a
\* store that has rows, and a later complete run over the same tree adds again
\* every row the run before it added.
C12_StoreAppendOnly ==
    [][ /\ IsPrefix(table, table')
        /\ pc = "schema" => table' = table
        /\ LaterRunDuplicates' ]_vars

\* C12 witness: a second run has completed on a store that held the rows of
\* the first, and these rows are there twice.
C12_Witness ==
    /\ runs = 2
    /\ RunCompleted
    /\ Len(prevInserted) >= 2
    /\ table = prevInserted \o prevInserted


\* C13: every fatal error (schema creation, hashing, begin / prepare / commit
\* of a flush) is logged and ends the process with a non-zero exit code: a
\* process that has exited with code 0 has met none of them.
C13_FatalErrorsExitNonZero ==
    (pc = "exited" /\ exitCode = 0) =>
        /\ "schema" \notin logs
        /\ ~hashFailed
        /\ ~commitFailed

\* C14: a failure of schema creation ends the process before any traversal:
\* no root has been resolved or walked, no entry visited, no file hashed and
\* no flush started.
C14_SchemaFailureBeforeTraversal ==
    "schema" \in logs =>
        /\ pc = "exited"
        /\ rootIdx = 1
        /\ abs = <<>>
        /\ ~absErr
        /\ todo = <<>>
        /\ visited = <<>>
        /\ emitted = <<>>
        /\ ~hashFailed
        /\ records = <<>>
        /\ commits = <<>>
        /\ attempts = <<>>
        /\ ~txOpen
        /\ table = table0

\* C14 witness: schema creation has failed in a run that was given roots.
C14_Witness ==
    /\ "schema" \in logs
    /\ pc = "exited"
    /\ Len(args) > 0


\* The digits a lowercase hexadecimal string is made of.
LowerHexDigits ==
    {"0", "1", "2", "3", "4", "5", "6", "7", "8", "9",
     "a", "b", "c", "d", "e", "f"}

\* The string is 40 lowercase hexadecimal digits.
IsSha1Hex(h) ==
    /\ Len(h) = 40
    /\ \A k \in 1..Len(h) : SubSeq(h, k, k) \in LowerHexDigits

\* The paths of the records emitted so far.
EmittedPaths == { emitted[i].path : i \in 1..Len(emitted) }

\* C15: the sha1 of every record emitted is the digest of the whole content of
\* its file, 40 lowercase hexadecimal digits; files of the same content have
\* the same digest; an empty file that is visited, not hidden and readable has
\* a record and this record has the digest of the empty input; no record has
\* the empty string that calcSha1 returns when the file cannot be read.
C15_DigestOfContent ==
    /\ \A i \in 1..Len(emitted) :
          /\ IsSha1Hex(emitted[i].sha1)
          /\ emitted[i].sha1 # ""
          /\ emitted[i].sha1 = Sha1Hex(Content(emitted[i].path))
          /\ fs[emitted[i].path] = "file"
          /\ Content(emitted[i].path) = "" =>
                 emitted[i].sha1 = "da39a3ee5e6b4b0d3255bfef95601890afd80709"
          /\ \A j \in 1..Len(emitted) :
                 Content(emitted[j].path) = Content(emitted[i].path) =>
                     emitted[j].sha1 = emitted[i].sha1
    /\ \A i \in 1..Len(visited) :
          ( /\ fs[visited[i]] = "file"
            /\ ~StartsWithDot(BaseName(visited[i]))
            /\ Content(visited[i]) = "" ) => visited[i] \in EmittedPaths

\* C15 witness: records of two files of the same content, of a file of
\* another content and of an empty file have been emitted.
C15_Witness ==
    /\ \E i, j \in 1..Len(emitted) :
          /\ emitted[i].path # emitted[j].path
          /\ Content(emitted[i].path) = Content(emitted[j].path)
    /\ \E i \in 1..Len(emitted) : Content(emitted[i].path) = ""
    /\ \E i \in 1..Len(emitted) : Content(emitted[i].path) = "hello"


\* The flush that the visit closure starts is under way.
InClosureFlush == ret = "walk" /\ pc \in {"begin", "prepare", "exec", "commit"}

\* C16: the batch never holds more than its capacity, it holds less than its
\* capacity before every append, and a batch that has reached its capacity is
\* flushed and reset before the next entry is visited.
C16_BatchBounded ==
    [][ /\ Len(records) <= BatchSize
        /\ Len(records') <= BatchSize
        /\ Len(records') > Len(records) => Len(records) < BatchSize
        /\ visited' # visited => Len(records) < BatchSize
        /\ Len(records') = BatchSize => (InClosureFlush' \/ pc' = "exited")
        /\ (InClosureFlush /\ pc' = "walk") => records' = <<>> ]_vars

\* C16 witness: after a flush of a full batch and its reset the next record
\* has been appended to the empty batch.
C16_Witness ==
    /\ pc = "walk"
    /\ Len(commits) >= 1
    /\ Len(records) = 1
    /\ Len(emitted) = BatchSize + 1


\* C17: a failure to begin the transaction or to prepare the statement ends
\* the process with a failure code, with no insert of the batch of this flush
\* executed, no further entry visited, and no transaction of this flush left
\* open without commit or rollback.
C17_BeginPrepareFailureIsClean ==
    [][ (pc \in {"begin", "prepare"} /\ pc' = "exited") =>
            /\ exitCode' = 1
            /\ "fatal" \in logs'
            /\ Len(attempts') = Len(emitted') - Len(records')
            /\ table' = table
            /\ visited' = visited
            /\ ~txOpen' ]_vars


\* The rows of a sequence of insert attempts, and the rows of those that
\* succeeded.
RECURSIVE AttemptRows(_)
AttemptRows(as) ==
    IF as = <<>> THEN <<>> ELSE <<Head(as).row>> \o AttemptRows(Tail(as))

OkRows(as) == AttemptRows(SelectSeq(as, LAMBDA a : a.ok))

\* The last n of a sequence.
LastN(q, n) == SubSeq(q, Len(q) - n + 1, Len(q))

RECURSIVE PreOrder(_)
RECURSIVE PreOrderAll(_)
PreOrder(path) ==
    IF fs[path] = "dir" THEN <<path>> \o PreOrderAll(DirEntries(fs, path))
    ELSE <<path>>

PreOrderAll(paths) ==
    IF paths = <<>> THEN <<>>
    ELSE PreOrder(Head(paths)) \o PreOrderAll(Tail(paths))

\* The pre-orders of the roots from argument k on, in argument order.
RECURSIVE TraversalOrder(_)
TraversalOrder(k) ==
    IF k > Len(args) THEN <<>>
    ELSE PreOrder(Abs(args[k])) \o TraversalOrder(k + 1)

\* The sequence a is b with some of its elements left out.
RECURSIVE IsSubsequence(_, _)
IsSubsequence(a, b) ==
    IF a = <<>> THEN TRUE
    ELSE IF b = <<>> THEN FALSE
    ELSE IF Head(a) = Head(b) THEN IsSubsequence(Tail(a), Tail(b))
    ELSE IsSubsequence(a, Tail(b))

\* The records doVisit returns for a sequence of entries.
RECURSIVE RecordsOf(_)
RecordsOf(paths) ==
    IF paths = <<>> THEN <<>>
    ELSE DoVisit(Head(paths), fs[Head(paths)]).rec \o RecordsOf(Tail(paths))

\* The paths of a sequence of records.
RECURSIVE PathsOf(_)
PathsOf(recs) ==
    IF recs = <<>> THEN <<>> ELSE <<Head(recs).path>> \o PathsOf(Tail(recs))

\* C19: after a complete run in which the store did not fail, the rows
\* inserted, flush after flush, are the records emitted, in the order of the
\* traversal (roots in argument order, pre-order in a root): each emitted
\* record is in the table once at its place, and the records still in the
\* batch in memory are in the table too.
C19_InsertedEqualsEmitted ==
    (RunCompleted /\ faults = 0) =>
        /\ inserted = emitted
        /\ table = table0 \o emitted
        /\ AttemptRows(attempts) = emitted
        /\ emitted = RecordsOf(visited)
        /\ IsSubsequence(visited, TraversalOrder(1))
        /\ IsSubsequence(PathsOf(emitted), TraversalOrder(1))
        /\ IsSubsequence(records, LastN(table, Len(records)))

\* C19 witness: a complete run without store failure with a flush of a full
\* batch and a final flush, over two roots.
C19_Witness ==
    /\ RunCompleted
    /\ faults = 0
    /\ Len(args) = 2
    /\ Len(commits) >= 2
    /\ Len(emitted) > BatchSize
    /\ table = emitted

====
